---------------------------- MODULE Spec2Model ----------------------------
(***************************************************************************)
(* Model of homeassistant/components/minecraft_server/__init__.py:         *)
(* coordinator lifecycle (async_setup_entry / async_unload_entry) and the  *)
(* version 1 --> 2 migration of config entry, device identifiers and       *)
(* entity unique ids (async_migrate_entry).                                *)
(*                                                                         *)
(* Python strings are sequences of one-character strings, so that split,   *)
(* lower, replace and the f-string are computed character by character.    *)
(***************************************************************************)
EXTENDS Integers, Sequences, FiniteSets, TLC

\* ------------------------------------------------------------- bounds
\* Number of device records in the device registry.
NumDevices == 2
\* Number of entity records in the entity registry.
NumEntities == 2
\* Longest generated legacy unique id handed to _migrate_entity_unique_id.
MaxLen == 5

\* ---------------------------------------------------------- constants
\* from .const import DOMAIN (a reserved word here: Domain), KEY_LATENCY, KEY_MOTD
Domain == "minecraft_server"
KEY_MOTD == <<"m", "o", "t", "d">>
KEY_LATENCY == <<"l", "a", "t", "e", "n", "c", "y">>

\* Python's None where a string is expected: no string has this element.
None == <<"None">>
\* The exceptions that leave a function, and the absence of one.
NoError == "NoError"
IndexError == "IndexError"
AssertionError == "AssertionError"
KeyError == "KeyError"
ConfigEntryNotReady == "ConfigEntryNotReady"

\* --------------------------------------------------- Python str methods
UpperCase == <<"A", "B", "C", "D", "E", "F", "G", "H", "I", "J", "K", "L", "M", "N", "O", "P", "Q", "R", "S", "T", "U", "V", "W", "X", "Y", "Z">>
LowerCase == <<"a", "b", "c", "d", "e", "f", "g", "h", "i", "j", "k", "l", "m", "n", "o", "p", "q", "r", "s", "t", "u", "v", "w", "x", "y", "z">>

\* str.lower() on one character.
LowerChar(c) ==
    IF \E i \in 1..Len(UpperCase) : UpperCase[i] = c
    THEN LowerCase[CHOOSE i \in 1..Len(UpperCase) : UpperCase[i] = c]
    ELSE c

\* str.lower()
Lower(s) == [i \in 1..Len(s) |-> LowerChar(s[i])]

\* str.replace(old, new) for one-character old and new.
Replace(s, old, new) == [i \in 1..Len(s) |-> IF s[i] = old THEN new ELSE s[i]]

\* str.split(sep) for a one-character sep: the list of pieces, never empty.
RECURSIVE Split(_, _)
Split(s, sep) ==
    IF \A i \in 1..Len(s) : s[i] # sep
    THEN <<s>>
    ELSE LET p == CHOOSE i \in 1..Len(s) :
                     s[i] = sep /\ \A j \in 1..(i - 1) : s[j] # sep
         IN  <<SubSeq(s, 1, p - 1)>> \o Split(SubSeq(s, p + 1, Len(s)), sep)

\* bool(x) is False for None and for the empty string.
Falsy(x) == x = None \/ x = <<>>

\* ------------------------------------------------------ the two entries
Keys == {"E1", "E2"}
EntryId(k) == IF k = "E1" THEN <<"E", "1">> ELSE <<"E", "2">>
EntryIds == {EntryId(k) : k \in Keys}

\* Legacy (version 1) unique id of entry E1, and a value that is not it.
LegacyId == <<"a", "b", "c", "1", "2", "3">>
OtherId == <<"x", "y", "z">>

\* ----------------------------------------------------------- the state
VARIABLES
    entry,       \* config entries: key -> [entry_id, version, unique_id]
    devices,     \* device registry, in enumeration order
    entities,    \* entity registry, in enumeration order
    pc,          \* position of the migration task
    mig,         \* its locals: config_entry, old_unique_id
    result,      \* key -> outcome of the last async_migrate_entry call
    noop,        \* key -> the last call skipped the version 1 branch
    stage,       \* key -> last migration step completed: none, A, B, C
    entry0,      \* the registries as they were before any call
    devices0,
    entities0,
    hass_data,   \* hass.data: no DOMAIN key, or the domain table
    life_pc,     \* key -> position of the entry's setup / unload
    life_ev,     \* key -> last of: refresh_ok (first refresh succeeded),
                 \*   unloaded, unload_failed (clean up done, platforms
                 \*   answered True, False), unload_raised (clean up raised)
    life_ret,    \* key -> the last setup / unload call and its outcome
    arg,         \* argument of a direct call of _migrate_entity_unique_id
    ret          \* and what it returned

migVars == <<entry, devices, entities, pc, mig, result, noop, stage>>
snapVars == <<entry0, devices0, entities0>>
lifeVars == <<hass_data, life_pc, life_ev, life_ret>>
callVars == <<arg, ret>>
vars == <<entry, devices, entities, pc, mig, result, noop, stage,
          entry0, devices0, entities0,
          hass_data, life_pc, life_ev, life_ret, arg, ret>>

\* --------------------------------------------- _migrate_entity_unique_id
\* The callback without the lowercasing of the entity type.
_migrate_entity_unique_id_NoLower(entity_entry) ==
    LET unique_id_pieces == Split(entity_entry.unique_id, "-")
    IN  IF Len(unique_id_pieces) < 3
        THEN [raised |-> IndexError, new_unique_id |-> None]
        ELSE LET entity_type == unique_id_pieces[3]
                 lowered == Replace(entity_type, " ", "_")
                 motd == IF lowered = <<"w", "o", "r", "l", "d", "_", "m", "e", "s", "s", "a", "g", "e">>
                         THEN KEY_MOTD ELSE lowered
                 new_entity_type == IF motd = <<"l", "a", "t", "e", "n", "c", "y", "_", "t", "i", "m", "e">>
                                    THEN KEY_LATENCY ELSE motd
             IN  [raised |-> NoError,
                  new_unique_id |->
                    entity_entry.config_entry_id \o <<"-">> \o new_entity_type]

\* The callback taking the last piece, unique_id_pieces[-1].
_migrate_entity_unique_id_LastPiece(entity_entry) ==
    LET unique_id_pieces == Split(entity_entry.unique_id, "-")
        entity_type == unique_id_pieces[Len(unique_id_pieces)]
        lowered == Replace(Lower(entity_type), " ", "_")
        motd == IF lowered = <<"w", "o", "r", "l", "d", "_", "m", "e", "s", "s", "a", "g", "e">> THEN KEY_MOTD ELSE lowered
        new_entity_type == IF motd = <<"l", "a", "t", "e", "n", "c", "y", "_", "t", "i", "m", "e">>
                           THEN KEY_LATENCY ELSE motd
    IN  [raised |-> NoError,
         new_unique_id |->
           entity_entry.config_entry_id \o <<"-">> \o new_entity_type]

\* Returns the dict {"new_unique_id": ...}; raises IndexError when the
\* legacy unique id has no piece at index 2.
_migrate_entity_unique_id(entity_entry) ==
    LET unique_id_pieces == Split(entity_entry.unique_id, "-")
    IN  IF Len(unique_id_pieces) < 3
        THEN [raised |-> IndexError, new_unique_id |-> None]
        ELSE LET entity_type == unique_id_pieces[3]
                 lowered == Replace(Lower(entity_type), " ", "_")
                 motd == IF lowered = <<"w", "o", "r", "l", "d", "_", "m", "e", "s", "s", "a", "g", "e">>
                         THEN KEY_MOTD ELSE lowered
                 new_entity_type == IF motd = <<"l", "a", "t", "e", "n", "c", "y", "_", "t", "i", "m", "e">>
                                    THEN KEY_LATENCY ELSE motd
             IN  [raised |-> NoError,
                  new_unique_id |->
                    entity_entry.config_entry_id \o <<"-">> \o new_entity_type]

\* ------------------------------------------------ registry collaborators
\* dr.async_entries_for_config_entry: indices of the entry's devices.
async_entries_for_config_entry(devs, entry_id) ==
    {i \in 1..Len(devs) : devs[i].config_entry = entry_id}

\* device_registry.async_update_device(device_id=..., new_identifiers=...)
async_update_device(devs, i, new_identifiers) ==
    [devs EXCEPT ![i].identifiers = new_identifiers]

\* ent_reg.async_update_entity(entity_id, new_unique_id=...)
async_update_entity(ents, i, updates) ==
    [ents EXCEPT ![i].unique_id = updates.new_unique_id]

\* er.async_migrate_entries: every entity of the entry, in order, is handed
\* to the callback and updated with what it returns; an exception of the
\* callback ends the loop and propagates.
RECURSIVE async_migrate_entries(_, _, _)
async_migrate_entries(ents, i, config_entry_id) ==
    IF i > Len(ents)
    THEN [entities |-> ents, raised |-> NoError]
    ELSE IF ents[i].config_entry_id # config_entry_id
         THEN async_migrate_entries(ents, i + 1, config_entry_id)
         ELSE LET updates == _migrate_entity_unique_id(ents[i])
              IN  IF updates.raised # NoError
                  THEN [entities |-> ents, raised |-> updates.raised]
                  ELSE async_migrate_entries(
                           async_update_entity(ents, i, updates),
                           i + 1, config_entry_id)

\* ------------------------------------- _async_migrate_device_identifiers
\* The two nested loops: the first device of the entry with an identifier
\* whose second component is old_unique_id is updated, and both loops end.
\* The loops with the new identifier built from old_unique_id.
RECURSIVE MigrateDeviceLoop_OldId(_, _, _, _)
MigrateDeviceLoop_OldId(devs, i, entry_id, old_unique_id) ==
    IF i > Len(devs)
    THEN devs
    ELSE IF /\ i \in async_entries_for_config_entry(devs, entry_id)
            /\ \E identifier \in devs[i].identifiers :
                   identifier[2] = old_unique_id
         THEN async_update_device(devs, i, {<<Domain, old_unique_id>>})
         ELSE MigrateDeviceLoop_OldId(devs, i + 1, entry_id, old_unique_id)

\* The loops without the break of the outer one.
RECURSIVE MigrateDeviceLoop_NoBreak(_, _, _, _)
MigrateDeviceLoop_NoBreak(devs, i, entry_id, old_unique_id) ==
    IF i > Len(devs)
    THEN devs
    ELSE IF /\ i \in async_entries_for_config_entry(devs, entry_id)
            /\ \E identifier \in devs[i].identifiers :
                   identifier[2] = old_unique_id
         THEN MigrateDeviceLoop_NoBreak(
                  async_update_device(devs, i, {<<Domain, entry_id>>}),
                  i + 1, entry_id, old_unique_id)
         ELSE MigrateDeviceLoop_NoBreak(devs, i + 1, entry_id, old_unique_id)

\* The loops over every device of the registry.
RECURSIVE MigrateDeviceLoop_AllDevices(_, _, _, _)
MigrateDeviceLoop_AllDevices(devs, i, entry_id, old_unique_id) ==
    IF i > Len(devs)
    THEN devs
    ELSE IF \E identifier \in devs[i].identifiers :
                identifier[2] = old_unique_id
         THEN async_update_device(devs, i, {<<Domain, entry_id>>})
         ELSE MigrateDeviceLoop_AllDevices(devs, i + 1, entry_id, old_unique_id)

RECURSIVE MigrateDeviceLoop(_, _, _, _)
MigrateDeviceLoop(devs, i, entry_id, old_unique_id) ==
    IF i > Len(devs)
    THEN devs
    ELSE IF /\ i \in async_entries_for_config_entry(devs, entry_id)
            /\ \E identifier \in devs[i].identifiers :
                   identifier[2] = old_unique_id
         THEN async_update_device(devs, i, {<<Domain, entry_id>>})
         ELSE MigrateDeviceLoop(devs, i + 1, entry_id, old_unique_id)

\* ------------------------------------------------------- initial states
Identifiers1 == {<<Domain, LegacyId>>}
Identifiers2 == {<<Domain, OtherId>>}
Identifiers3 == {<<"other_domain", LegacyId>>, <<Domain, OtherId>>}

\* What a device record may hold: owner and identifier set.
DevicePool ==
    { [config_entry |-> EntryId("E1"), identifiers |-> Identifiers1],
      [config_entry |-> EntryId("E1"), identifiers |-> Identifiers2],
      [config_entry |-> EntryId("E1"), identifiers |-> Identifiers3],
      [config_entry |-> EntryId("E2"), identifiers |-> Identifiers1] }

UidProtocolVersion == <<"a", "b", "c", "1", "2", "3", "-", "2", "5", "5", "6", "5", "-", "P", "r", "o", "t", "o", "c", "o", "l", " ", "V", "e", "r", "s", "i", "o", "n">>
UidWorldMessage == <<"h", "o", "s", "t", "-", "s", "r", "v", "-", "W", "o", "r", "l", "d", " ", "M", "e", "s", "s", "a", "g", "e">>
UidTwoPieces == <<"a", "b", "c", "1", "2", "3", "-", "2", "5", "5", "6", "5">>
UidFourPieces == <<"h", "-", "1", "-", "L", "a", "t", "e", "n", "c", "y", " ", "T", "i", "m", "e", "-", "x">>

\* What an entity record may hold: owner and legacy unique id.
EntityPool ==
    { [config_entry_id |-> EntryId("E1"), unique_id |-> UidProtocolVersion],
      [config_entry_id |-> EntryId("E1"), unique_id |-> UidWorldMessage],
      [config_entry_id |-> EntryId("E1"), unique_id |-> UidTwoPieces],
      [config_entry_id |-> EntryId("E1"), unique_id |-> UidFourPieces],
      [config_entry_id |-> EntryId("E2"), unique_id |-> UidProtocolVersion] }

\* Entry E1 is a version 1 entry (with, against its construction, possibly
\* no unique id) or already version 2; entry E2 was created at version 2.
EntryPool ==
    { [version |-> 1, unique_id |-> LegacyId],
      [version |-> 1, unique_id |-> None],
      [version |-> 1, unique_id |-> <<>>],
      [version |-> 2, unique_id |-> None] }

NoCall == [unique_id |-> <<>>, config_entry_id |-> <<>>]
NoReturn == [raised |-> "none", new_unique_id |-> None]

\* The migration task's locals while no migration runs.
NoTask == [config_entry |-> "none", old_unique_id |-> None,
           config_entry_id |-> None]

\* hass.data without the DOMAIN key.
NoDomainData == [has_domain |-> FALSE, table |-> <<>>]

\* The registries holding entry E1 as e1 (E2 beside it), devices d, entities e.
Registries(e1, d, e) ==
    /\ entry = [k \in Keys |->
                  IF k = "E1"
                  THEN [entry_id |-> EntryId(k), version |-> e1.version,
                        unique_id |-> e1.unique_id]
                  ELSE [entry_id |-> EntryId(k), version |-> 2,
                        unique_id |-> None]]
    /\ devices = [i \in 1..NumDevices |->
                    [id |-> i, config_entry |-> d[i].config_entry,
                     identifiers |-> d[i].identifiers]]
    /\ entities = [i \in 1..NumEntities |->
                     [entity_id |-> i, unique_id |-> e[i].unique_id,
                      config_entry_id |-> e[i].config_entry_id]]

RegistriesInit ==
    /\ \E e1 \in EntryPool :
       \E d \in [1..NumDevices -> DevicePool] :
       \E e \in [1..NumEntities -> EntityPool] : Registries(e1, d, e)
    /\ entry0 = entry
    /\ devices0 = devices
    /\ entities0 = entities

MigrationIdle ==
    /\ pc = "idle"
    /\ mig = NoTask
    /\ result = [k \in Keys |-> "none"]
    /\ noop = [k \in Keys |-> FALSE]
    /\ stage = [k \in Keys |-> "none"]

LifecycleIdle ==
    /\ hass_data = NoDomainData
    /\ life_pc = [k \in Keys |-> "idle"]
    /\ life_ev = [k \in Keys |-> "none"]
    /\ life_ret = [k \in Keys |-> [call |-> "none", value |-> "none"]]

CallIdle ==
    /\ arg = NoCall
    /\ ret = NoReturn

Init ==
    /\ RegistriesInit
    /\ MigrationIdle
    /\ LifecycleIdle
    /\ CallIdle

\* --------------------------------------------------- async_migrate_entry
\* Line 64 with the test widened to every version from 1 on.
IsVersion1_OrLater(config_entry) == config_entry.version >= 1

\* Line 64: if config_entry.version == 1
IsVersion1(config_entry) == config_entry.version = 1

\* Line 66 with the assertion stripped.
AssertOldUniqueId_Stripped(old_unique_id) == TRUE

\* Line 66: assert old_unique_id; TRUE when the assertion passes.
AssertOldUniqueId(old_unique_id) == ~Falsy(old_unique_id)

\* Lines 71-73 without the reset of unique_id.
MigrateConfigEntry_KeepsUniqueId(config_entry) ==
    [config_entry EXCEPT !.version = 2]

\* Lines 71-73 without the new version.
MigrateConfigEntry_KeepsVersion(config_entry) ==
    [config_entry EXCEPT !.unique_id = None]

\* Lines 71-73: unique_id = None, version = 2, async_update_entry.
MigrateConfigEntry(config_entry) ==
    [config_entry EXCEPT !.unique_id = None, !.version = 2]

\* Lines 59-73 and 81-83: the version test, the assertion, Step A.
async_migrate_entry(k) ==
    /\ pc = "idle"
    /\ IF IsVersion1(entry[k])
       THEN IF ~AssertOldUniqueId(entry[k].unique_id)
            THEN /\ result' = [result EXCEPT ![k] = AssertionError]
                 /\ noop' = [noop EXCEPT ![k] = FALSE]
                 /\ UNCHANGED <<entry, pc, mig, stage>>
            ELSE /\ entry' = [entry EXCEPT ![k] = MigrateConfigEntry(entry[k])]
                 /\ mig' = [config_entry |-> k,
                            old_unique_id |-> entry[k].unique_id,
                            config_entry_id |-> entry[k].entry_id]
                 /\ pc' = "device"
                 /\ result' = [result EXCEPT ![k] = "pending"]
                 /\ noop' = [noop EXCEPT ![k] = FALSE]
                 /\ stage' = [stage EXCEPT ![k] = "A"]
       ELSE /\ result' = [result EXCEPT ![k] = "True"]
            /\ noop' = [noop EXCEPT ![k] = TRUE]
            /\ UNCHANGED <<entry, pc, mig, stage>>
    /\ UNCHANGED <<devices, entities>>
    /\ UNCHANGED <<snapVars, lifeVars, callVars>>

\* Line 76: await _async_migrate_device_identifiers(...), Step B.
_async_migrate_device_identifiers ==
    /\ pc = "device"
    /\ devices' = MigrateDeviceLoop(devices, 1,
                      entry[mig.config_entry].entry_id, mig.old_unique_id)
    /\ pc' = "entities"
    /\ stage' = [stage EXCEPT ![mig.config_entry] = "B"]
    /\ UNCHANGED <<entry, entities, mig, result, noop>>
    /\ UNCHANGED <<snapVars, lifeVars, callVars>>

\* Lines 79-83: await er.async_migrate_entries(...), Step C, and the return.
MigrateEntities ==
    /\ pc = "entities"
    /\ LET r == async_migrate_entries(entities, 1, mig.config_entry_id)
       IN  /\ entities' = r.entities
           /\ IF r.raised = NoError
              THEN /\ result' = [result EXCEPT ![mig.config_entry] = "True"]
                   /\ stage' = [stage EXCEPT ![mig.config_entry] = "C"]
              ELSE /\ result' = [result EXCEPT ![mig.config_entry] = r.raised]
                   /\ UNCHANGED stage
    /\ pc' = "idle"
    /\ mig' = NoTask
    /\ UNCHANGED <<entry, devices, noop>>
    /\ UNCHANGED <<snapVars, lifeVars, callVars>>

\* The task ends at one of its two awaits (lines 76 and 79) without being
\* resumed: the host stops, or the task is cancelled.
Interrupt ==
    /\ pc \in {"device", "entities"}
    /\ pc' = "idle"
    /\ mig' = NoTask
    /\ result' = [result EXCEPT ![mig.config_entry] = "Interrupted"]
    /\ UNCHANGED <<entry, devices, entities, noop, stage>>
    /\ UNCHANGED <<snapVars, lifeVars, callVars>>

Next ==
    \/ \E k \in Keys : async_migrate_entry(k)
    \/ _async_migrate_device_identifiers
    \/ MigrateEntities
    \/ Interrupt

Spec == Init /\ [][Next]_vars

\* ------------------------------------- async_setup_entry, async_unload_entry
\* hass.data.setdefault(DOMAIN, {}) followed by domain_data[key] = value.
SetDefaultAndStore(data, key, value) ==
    [has_domain |-> TRUE,
     table |-> [x \in (DOMAIN data.table) \cup {key} |->
                  IF x = key THEN value ELSE data.table[x]]]

\* hass.data[DOMAIN].pop(key): KeyError without DOMAIN or without the key.
Pop(data, key) ==
    IF data.has_domain /\ key \in DOMAIN data.table
    THEN [raised |-> NoError,
          data |-> [has_domain |-> TRUE,
                    table |-> [x \in (DOMAIN data.table) \ {key} |->
                                 data.table[x]]]]
    ELSE [raised |-> KeyError, data |-> data]

\* MinecraftServerCoordinator(hass, config_entry_id, entry.data)
MinecraftServerCoordinator(config_entry_id) ==
    [config_entry_id |-> config_entry_id]

\* Lines 21-32: the coordinator is created and its first refresh awaited.
\* The host runs one setup or unload of an entry at a time.
async_setup_entry(k) ==
    /\ life_pc[k] = "idle"
    /\ life_pc' = [life_pc EXCEPT ![k] = "refresh"]
    /\ life_ret' = [life_ret EXCEPT ![k] =
                      [call |-> "async_setup_entry", value |-> "pending"]]
    /\ UNCHANGED <<hass_data, life_ev>>
    /\ UNCHANGED <<migVars, snapVars, callVars>>

\* Line 32 raises: async_config_entry_first_refresh failed.
FirstRefreshFailed(k) ==
    /\ life_pc[k] = "refresh"
    /\ life_pc' = [life_pc EXCEPT ![k] = "idle"]
    /\ life_ret' = [life_ret EXCEPT ![k].value = ConfigEntryNotReady]
    /\ UNCHANGED <<hass_data, life_ev>>
    /\ UNCHANGED <<migVars, snapVars, callVars>>

\* Lines 32-39: the first refresh succeeded, the coordinator is stored and
\* the forwarding to the platforms awaited.
FirstRefreshDone(k) ==
    /\ life_pc[k] = "refresh"
    /\ hass_data' = SetDefaultAndStore(hass_data, entry[k].entry_id,
                         MinecraftServerCoordinator(entry[k].entry_id))
    /\ life_pc' = [life_pc EXCEPT ![k] = "forward"]
    /\ life_ev' = [life_ev EXCEPT ![k] = "refresh_ok"]
    /\ UNCHANGED life_ret
    /\ UNCHANGED <<migVars, snapVars, callVars>>

\* Lines 39-41: return True.
ForwardDone(k) ==
    /\ life_pc[k] = "forward"
    /\ life_pc' = [life_pc EXCEPT ![k] = "idle"]
    /\ life_ret' = [life_ret EXCEPT ![k].value = "True"]
    /\ UNCHANGED <<hass_data, life_ev>>
    /\ UNCHANGED <<migVars, snapVars, callVars>>

\* Lines 44-51: async_unload_platforms is awaited.
async_unload_entry(k) ==
    /\ life_pc[k] = "idle"
    /\ life_pc' = [life_pc EXCEPT ![k] = "unload"]
    /\ life_ret' = [life_ret EXCEPT ![k] =
                      [call |-> "async_unload_entry", value |-> "pending"]]
    /\ UNCHANGED <<hass_data, life_ev>>
    /\ UNCHANGED <<migVars, snapVars, callVars>>

\* The clean up done only when the platforms unloaded.
UnloadPlatformsDone_KeepOnFailure(k, unload_ok) ==
    /\ life_pc[k] = "unload"
    /\ LET popped == IF unload_ok THEN Pop(hass_data, entry[k].entry_id)
                     ELSE [raised |-> NoError, data |-> hass_data]
       IN  /\ hass_data' = popped.data
           /\ life_ret' = [life_ret EXCEPT ![k].value =
                             IF popped.raised # NoError THEN popped.raised
                             ELSE IF unload_ok THEN "True" ELSE "False"]
    /\ life_pc' = [life_pc EXCEPT ![k] = "idle"]
    /\ life_ev' = [life_ev EXCEPT ![k] =
                     IF Pop(hass_data, entry[k].entry_id).raised # NoError
                     THEN "unload_raised"
                     ELSE IF unload_ok THEN "unloaded" ELSE "unload_failed"]
    /\ UNCHANGED <<migVars, snapVars, callVars>>

\* Lines 49-56: the platforms answered unload_ok; clean up; return unload_ok.
UnloadPlatformsDone(k, unload_ok) ==
    /\ life_pc[k] = "unload"
    /\ LET popped == Pop(hass_data, entry[k].entry_id)
       IN  /\ hass_data' = popped.data
           /\ life_ret' = [life_ret EXCEPT ![k].value =
                             IF popped.raised # NoError THEN popped.raised
                             ELSE IF unload_ok THEN "True" ELSE "False"]
    /\ life_pc' = [life_pc EXCEPT ![k] = "idle"]
    /\ life_ev' = [life_ev EXCEPT ![k] =
                     IF Pop(hass_data, entry[k].entry_id).raised # NoError
                     THEN "unload_raised"
                     ELSE IF unload_ok THEN "unloaded" ELSE "unload_failed"]
    /\ UNCHANGED <<migVars, snapVars, callVars>>

\* The registries of the end-to-end example: entry E1 at version 1 with its
\* legacy unique id, its devices and its entities.
ExampleRegistries ==
    /\ Registries([version |-> 1, unique_id |-> LegacyId],
                  [i \in 1..NumDevices |->
                     [config_entry |-> EntryId("E1"),
                      identifiers |-> Identifiers1]],
                  [i \in 1..NumEntities |->
                     [config_entry_id |-> EntryId("E1"),
                      unique_id |-> UidProtocolVersion]])
    /\ entry0 = entry
    /\ devices0 = devices
    /\ entities0 = entities

InitLifecycle ==
    /\ ExampleRegistries
    /\ MigrationIdle
    /\ LifecycleIdle
    /\ CallIdle

NextLifecycle ==
    \/ \E k \in Keys : async_setup_entry(k)
    \/ \E k \in Keys : FirstRefreshFailed(k)
    \/ \E k \in Keys : FirstRefreshDone(k)
    \/ \E k \in Keys : ForwardDone(k)
    \/ \E k \in Keys : async_unload_entry(k)
    \/ \E k \in Keys : \E unload_ok \in BOOLEAN : UnloadPlatformsDone(k, unload_ok)

SpecLifecycle == InitLifecycle /\ [][NextLifecycle]_vars

\* ------------------------------ direct calls of _migrate_entity_unique_id
Alphabet == {"a", "A", " ", "-"}

\* Every string over Alphabet of at most MaxLen characters.
ShortStrings == UNION {[1..n -> Alphabet] : n \in 0..MaxLen}

UidLatencyTime == <<"h", "-", "1", "-", "l", "a", "t", "e", "n", "c", "y", "_", "t", "i", "m", "e">>
UidWorldMessageKey == <<"h", "o", "s", "t", "-", "s", "r", "v", "-", "w", "o", "r", "l", "d", "_", "m", "e", "s", "s", "a", "g", "e">>
UidWorldMessageUpper == <<"h", "o", "s", "t", "-", "s", "r", "v", "-", "W", "O", "R", "L", "D", " ", "M", "E", "S", "S", "A", "G", "E">>
UidMotd == <<"a", "-", "b", "-", "m", "o", "t", "d">>
UidPlayersOnline == <<"m", "a", "c", "-", "2", "5", "5", "6", "5", "-", "P", "l", "a", "y", "e", "r", "s", " ", "O", "n", "l", "i", "n", "e">>
UidOnePiece == <<"P", "r", "o", "t", "o", "c", "o", "l", " ", "V", "e", "r", "s", "i", "o", "n">>

LegacyUniqueIds ==
    ShortStrings \cup
    { UidProtocolVersion, UidWorldMessage, UidTwoPieces, UidFourPieces,
      UidLatencyTime, UidWorldMessageKey, UidWorldMessageUpper, UidMotd,
      UidPlayersOnline, UidOnePiece }

InitDecode ==
    /\ ExampleRegistries
    /\ MigrationIdle
    /\ LifecycleIdle
    /\ arg \in [unique_id : LegacyUniqueIds, config_entry_id : EntryIds]
    /\ ret = NoReturn

\* The entity registry hands one entity to the callback.
CallMigrateEntityUniqueId ==
    /\ ret = NoReturn
    /\ ret' = _migrate_entity_unique_id(arg)
    /\ UNCHANGED arg
    /\ UNCHANGED <<migVars, snapVars, lifeVars>>

NextDecode == CallMigrateEntityUniqueId

SpecDecode == InitDecode /\ [][NextDecode]_vars

\* ======================================================== properties
\* Vocabulary of the properties, stated on the registries as they were
\* before any call (entry0, devices0, entities0).

\* The devices and the entities of entry k.
OwnDevices(k) ==
    {i \in 1..Len(devices0) : devices0[i].config_entry = entry0[k].entry_id}
OwnEntities(k) ==
    {j \in 1..Len(entities0) :
        entities0[j].config_entry_id = entry0[k].entry_id}

\* Device i carried an identifier whose value is the legacy unique id of k.
Carried(i, k) ==
    \E identifier \in devices0[i].identifiers :
        identifier[2] = entry0[k].unique_id

\* Device i is the first device of k, in enumeration order, that carried it.
FirstCarrier(i, k) ==
    /\ i \in OwnDevices(k)
    /\ Carried(i, k)
    /\ \A h \in OwnDevices(k) : h < i => ~Carried(h, k)

\* Positions of the dashes of s; s has at least three dash-separated segments
\* when it has two dashes.
Dashes(s) == {i \in 1..Len(s) : s[i] = "-"}
NthDash(s, n) ==
    CHOOSE i \in Dashes(s) : Cardinality({h \in Dashes(s) : h < i}) = n - 1
Segments(s) == Cardinality(Dashes(s)) + 1

\* The segment of s at index 2: between the second dash and the third dash
\* (or the end of s).
TypeToken(s) ==
    LET from == NthDash(s, 2) + 1
        to == IF Segments(s) > 3 THEN NthDash(s, 3) - 1 ELSE Len(s)
    IN  SubSeq(s, from, to)

\* The key of a type token: lowercased, spaces to underscores, two renames.
ExpectedKey(t) ==
    LET n == [i \in 1..Len(t) |-> IF t[i] = " " THEN "_" ELSE LowerChar(t[i])]
    IN  CASE n = <<"w", "o", "r", "l", "d", "_", "m", "e", "s", "s", "a", "g", "e">> -> <<"m", "o", "t", "d">>
          [] n = <<"l", "a", "t", "e", "n", "c", "y", "_", "t", "i", "m", "e">> -> <<"l", "a", "t", "e", "n", "c", "y">>
          [] OTHER -> n

\* u occurs in s.
Contains(s, u) ==
    \E i \in 1..(Len(s) - Len(u) + 1) : SubSeq(s, i, i + Len(u) - 1) = u

\* p is a prefix of s.
StartsWith(s, p) == Len(s) >= Len(p) /\ SubSeq(s, 1, Len(p)) = p

\* The migration of version 1 entry k ran to its return.
Completed(k) == entry0[k].version = 1 /\ stage[k] = "C"

\* C1: async_migrate_entry on an entry at version 2 returns True and leaves
\* the entry, every device and every entity as they were; so a second run on
\* a version 1 entry changes nothing the first run left.
C1_NoOpAtVersion2 ==
    [][\A k \in Keys :
         (async_migrate_entry(k) /\ entry[k].version = 2)
            => /\ result'[k] = "True"
               /\ entry' = entry
               /\ devices' = devices
               /\ entities' = entities]_vars

C1_Witness ==
    /\ Completed("E1")
    /\ noop["E1"]
    /\ result["E1"] = "True"
    /\ entities # entities0

\* C2: when the migration of a version 1 entry with unique id U and entry id E
\* has completed, the entry has version 2 and unique_id None, the (first)
\* device that carried U has identifiers {(DOMAIN, E)}, and every entity of
\* the entry has unique id E-<key of its type token>; the example
\* abc123-25565-Protocol Version becomes E1-protocol_version.
C2_PostMigration ==
    \A k \in Keys :
        Completed(k) =>
            /\ entry[k].version = 2
            /\ entry[k].unique_id = None
            /\ result[k] = "True"
            /\ \A i \in 1..Len(devices) :
                   FirstCarrier(i, k) =>
                       devices[i].identifiers = {<<Domain, entry0[k].entry_id>>}
            /\ \A j \in OwnEntities(k) :
                   Segments(entities0[j].unique_id) >= 3 =>
                       /\ entities[j].unique_id =
                              entry0[k].entry_id \o <<"-">> \o
                              ExpectedKey(TypeToken(entities0[j].unique_id))
                       /\ (k = "E1" /\ entities0[j].unique_id = UidProtocolVersion)
                              => entities[j].unique_id = <<"E", "1", "-", "p", "r", "o", "t", "o", "c", "o", "l", "_", "v", "e", "r", "s", "i", "o", "n">>

C2_Witness ==
    /\ Completed("E1")
    /\ \E i \in 1..Len(devices) :
           FirstCarrier(i, "E1") /\ devices[i].identifiers = {<<Domain, <<"E", "1">>>>}
    /\ \E j \in OwnEntities("E1") :
           /\ entities0[j].unique_id = UidProtocolVersion
           /\ entities[j].unique_id = <<"E", "1", "-", "p", "r", "o", "t", "o", "c", "o", "l", "_", "v", "e", "r", "s", "i", "o", "n">>

\* The identifiers of device i, and the unique id of entity j, encode the
\* entry id of k and not its legacy unique id.
DeviceEncodesEntryId(i, k) ==
    \A identifier \in devices[i].identifiers :
        /\ identifier[2] = entry0[k].entry_id
        /\ identifier[2] # entry0[k].unique_id
EntityEncodesEntryId(j, k) ==
    /\ StartsWith(entities[j].unique_id, entry0[k].entry_id \o <<"-">>)
    /\ ~Contains(entities[j].unique_id, entry0[k].unique_id)

\* C3 as stated: once the migration of an entry has completed, every device
\* identifier and every entity unique id of the entry encodes the entry id and
\* none contains the legacy unique id, whatever devices the entry had.
C3_AsStated ==
    \A k \in Keys :
        Completed(k) =>
            /\ \A i \in OwnDevices(k) : DeviceEncodesEntryId(i, k)
            /\ \A j \in OwnEntities(k) : EntityEncodesEntryId(j, k)

\* C3, amended: once the migration of an entry has completed, every entity
\* unique id of the entry encodes the entry id and not the legacy unique id,
\* and so does every device identifier of the entry provided the entry had
\* at most one device and that device carried the legacy unique id.
C3_PostMigrationInvariant ==
    \A k \in Keys :
        Completed(k) =>
            /\ \A j \in OwnEntities(k) : EntityEncodesEntryId(j, k)
            /\ (/\ Cardinality(OwnDevices(k)) <= 1
                /\ \A i \in OwnDevices(k) : Carried(i, k))
                   => \A i \in OwnDevices(k) : DeviceEncodesEntryId(i, k)

C3_Witness ==
    /\ Completed("E1")
    /\ Cardinality(OwnDevices("E1")) = 1
    /\ \A i \in OwnDevices("E1") :
           Carried(i, "E1") /\ DeviceEncodesEntryId(i, "E1")
    /\ OwnEntities("E1") # {}

\* C4: on a version 1 entry whose unique_id is None, async_migrate_entry
\* raises AssertionError before any write: version stays 1, unique_id stays
\* None, no device and no entity changes.
C4_AssertBeforeWrite ==
    \A k \in Keys :
        (entry0[k].version = 1 /\ entry0[k].unique_id = None) =>
            /\ entry[k] = entry0[k]
            /\ devices = devices0
            /\ entities = entities0
            /\ pc = "idle"
            /\ result[k] \in {"none", AssertionError}

C4_Witness ==
    /\ entry0["E1"].version = 1
    /\ entry0["E1"].unique_id = None
    /\ result["E1"] = AssertionError
    /\ \E i \in OwnDevices("E1") : devices[i].identifiers # {}
    /\ OwnEntities("E1") # {}

\* C5: on a legacy unique id with at least three dash-separated segments,
\* _migrate_entity_unique_id returns (raises nothing) the new unique id
\* <config_entry_id>-<t>, t the segment at index 2 lowercased, spaces to
\* underscores, world_message renamed motd and latency_time renamed latency;
\* host-srv-World Message gives <entry_id>-motd.
C5_DecodeWellFormed ==
    (ret # NoReturn /\ Segments(arg.unique_id) >= 3) =>
        /\ ret.raised = NoError
        /\ ret.new_unique_id =
               arg.config_entry_id \o <<"-">> \o
               ExpectedKey(TypeToken(arg.unique_id))
        /\ arg.unique_id = UidWorldMessage =>
               ret.new_unique_id = arg.config_entry_id \o <<"-", "m", "o", "t", "d">>
        /\ arg.unique_id = UidLatencyTime =>
               ret.new_unique_id = arg.config_entry_id \o <<"-", "l", "a", "t", "e", "n", "c", "y">>
        /\ arg.unique_id = UidPlayersOnline =>
               ret.new_unique_id = arg.config_entry_id \o <<"-", "p", "l", "a", "y", "e", "r", "s", "_", "o", "n", "l", "i", "n", "e">>

C5_Witness ==
    /\ arg.unique_id = UidWorldMessage
    /\ arg.config_entry_id = <<"E", "1">>
    /\ ret.raised = NoError
    /\ ret.new_unique_id = <<"E", "1", "-", "m", "o", "t", "d">>

\* C6: the device step updates at most one device: the first device of the
\* entry that carried the legacy unique id gets the identifier set
\* {(DOMAIN, entry_id)}, every other device keeps its identifiers, and with
\* no such device nothing is updated and the step still ends normally.
C6_DeviceStep ==
    \A k \in Keys :
        /\ stage[k] \in {"none", "A"} =>
               \A i \in OwnDevices(k) : devices[i] = devices0[i]
        /\ stage[k] \in {"B", "C"} =>
               /\ \A i \in 1..Len(devices) :
                      devices[i].identifiers =
                          IF FirstCarrier(i, k)
                          THEN {<<Domain, entry0[k].entry_id>>}
                          ELSE devices0[i].identifiers
               /\ Cardinality({i \in 1..Len(devices) :
                                   devices[i] # devices0[i]}) <= 1

C6_Witness ==
    /\ stage["E1"] \in {"B", "C"}
    /\ \E i, h \in OwnDevices("E1") :
           /\ i < h
           /\ FirstCarrier(i, "E1")
           /\ Carried(h, "E1")
           /\ devices[i].identifiers = {<<Domain, <<"E", "1">>>>}
           /\ devices[h].identifiers = devices0[h].identifiers

\* The domain table holds a coordinator under the entry id of k.
HasCoordinator(k) ==
    /\ hass_data.has_domain
    /\ entry[k].entry_id \in DOMAIN hass_data.table

\* C7: hass.data[DOMAIN] holds a coordinator under an entry id exactly when
\* the first refresh of a setup of that entry succeeded and the entry has not
\* been unloaded since; async_unload_entry removes it whether or not the
\* platforms unloaded, and returns the platforms' answer (with no
\* coordinator to remove, the clean up raises KeyError).
C7_CoordinatorLifecycle ==
    \A k \in Keys :
        /\ HasCoordinator(k) <=> life_ev[k] = "refresh_ok"
        /\ HasCoordinator(k) =>
               hass_data.table[entry[k].entry_id].config_entry_id =
                   entry[k].entry_id
        /\ (life_ret[k].call = "async_unload_entry" /\ life_pc[k] = "idle")
               => /\ ~HasCoordinator(k)
                  /\ life_ev[k] = "unloaded" => life_ret[k].value = "True"
                  /\ life_ev[k] = "unload_failed" => life_ret[k].value = "False"
                  /\ life_ev[k] = "unload_raised" => life_ret[k].value = KeyError
                  /\ life_ev[k] \in {"unloaded", "unload_failed", "unload_raised"}

C7_Witness ==
    /\ life_ev["E1"] = "unload_failed"
    /\ life_ret["E1"] = [call |-> "async_unload_entry", value |-> "False"]
    /\ ~HasCoordinator("E1")
    /\ HasCoordinator("E2")
    /\ life_pc["E2"] = "idle"

\* The migration of k ended after Step A and no migration is running.
AbortedAfterA(k) == stage[k] = "A" /\ pc = "idle"

\* C8: the steps run in the order A, B, C, each after the one before it has
\* been written; and once the task has ended after Step A, the entry is at
\* version 2 with its devices and entities still in legacy form, and every
\* later step (a later async_migrate_entry included) leaves them so.
C8_NotResumable ==
    [][/\ pc = "device" =>
            /\ stage[mig.config_entry] = "A"
            /\ entry[mig.config_entry].version = 2
            /\ pc' \in {"entities", "idle"}
       /\ pc = "entities" =>
            /\ stage[mig.config_entry] = "B"
            /\ pc' = "idle"
       /\ \A k \in Keys :
            AbortedAfterA(k) =>
                /\ entry[k].version = 2
                /\ AbortedAfterA(k)'
                /\ entry' = entry
                /\ devices' = devices0
                /\ entities' = entities0]_vars

C8_Witness ==
    /\ AbortedAfterA("E1")
    /\ noop["E1"]
    /\ result["E1"] = "True"
    /\ entry["E1"].version = 2
    /\ \E i \in OwnDevices("E1") :
           <<Domain, LegacyId>> \in devices[i].identifiers
    /\ \E j \in OwnEntities("E1") :
           entities[j].unique_id = UidProtocolVersion

\* Entry k has an entity whose legacy unique id has fewer than 3 segments.
Malformed(j) == Segments(entities0[j].unique_id) < 3
HasMalformed(k) == \E j \in OwnEntities(k) : Malformed(j)

\* Step C of the migration of k has ended, by a return or by an exception.
EntityStepEnded(k) ==
    /\ pc = "idle"
    /\ stage[k] \in {"B", "C"}
    /\ ~noop[k]
    /\ result[k] # "Interrupted"

C10_Frame ==
    /\ DOMAIN entry = DOMAIN entry0
    /\ Len(devices) = Len(devices0)
    /\ Len(entities) = Len(entities0)
    /\ \A k \in Keys :
           /\ entry[k].entry_id = entry0[k].entry_id
           /\ entry[k].version >= entry0[k].version
           /\ stage[k] = "none" =>
                  /\ entry[k] = entry0[k]
                  /\ \A i \in OwnDevices(k) : devices[i] = devices0[i]
                  /\ \A j \in OwnEntities(k) : entities[j] = entities0[j]
           /\ Cardinality({i \in OwnDevices(k) : devices[i] # devices0[i]}) <= 1
    /\ \A i \in 1..Len(devices) :
           /\ devices[i].id = devices0[i].id
           /\ devices[i].config_entry = devices0[i].config_entry
    /\ \A j \in 1..Len(entities) :
           /\ entities[j].entity_id = entities0[j].entity_id
           /\ entities[j].config_entry_id = entities0[j].config_entry_id

C10_Witness ==
    /\ Completed("E1")
    /\ \E i \in OwnDevices("E1") : devices[i] # devices0[i]
    /\ \E j \in OwnEntities("E1") : entities[j] # entities0[j]
    /\ \E i \in OwnDevices("E2") :
           <<Domain, LegacyId>> \in devices[i].identifiers
    /\ OwnEntities("E2") # {}

=============================================================================
